---- MODULE Spec2Model ----
(***************************************************************************)
(* EWMA volatility-targeting overlay (run_aapl_ewma_voltarget.py).         *)
(*                                                                         *)
(* main() is a straight-line pipeline over one pandas frame `df`; every    *)
(* block of main() is one action that adds the columns the block adds.     *)
(* kpis() and drawdown() are pure functions, modelled as operators.        *)
(*                                                                         *)
(* float64 values are modelled in fixed point: the integer v stands for    *)
(* v / ONE.  NaN and +-inf are kept as values of their own with the IEEE   *)
(* rules numpy applies (NaN propagates, x/0 is +-inf, 0/0 is NaN, every    *)
(* comparison with NaN is false).  Python's own scalar division raises     *)
(* ZeroDivisionError instead; the two places where main()/kpis() divide    *)
(* Python scalars are modelled as raising.                                 *)
(***************************************************************************)
EXTENDS Integers, Sequences, FiniteSets, TLC

VARIABLES pc, cfg, df, out, arg, res

vars == <<pc, cfg, df, out, arg, res>>

-----------------------------------------------------------------------------
(* float64 *)

ONE == 1000

PosInf == 2000000000

NegInf == -PosInf

NaN == PosInf + 1

IsNaN(x) == x = NaN

IsInf(x) == x = PosInf \/ x = NegInf

Sign(x) == IF x > 0 THEN 1 ELSE IF x < 0 THEN -1 ELSE 0

Abs(x) == IF x < 0 THEN -x ELSE x

\* integer quotient rounded toward zero (sign-symmetric, as float rounding is)
TruncDiv(a, b) == Sign(a) * Sign(b) * (Abs(a) \div Abs(b))

FNeg(a) == IF IsNaN(a) THEN NaN ELSE -a

FAdd(a, b) ==
    IF IsNaN(a) \/ IsNaN(b) THEN NaN
    ELSE IF IsInf(a) /\ IsInf(b) THEN (IF a = b THEN a ELSE NaN)
    ELSE IF IsInf(a) THEN a
    ELSE IF IsInf(b) THEN b
    ELSE a + b

FSub(a, b) == FAdd(a, FNeg(b))

FMul(a, b) ==
    IF IsNaN(a) \/ IsNaN(b) THEN NaN
    ELSE IF IsInf(a) \/ IsInf(b)
         THEN (IF a = 0 \/ b = 0 THEN NaN
               ELSE IF Sign(a) * Sign(b) > 0 THEN PosInf ELSE NegInf)
    ELSE TruncDiv(a * b, ONE)

\* numpy / pandas division: never raises
FDiv(a, b) ==
    IF IsNaN(a) \/ IsNaN(b) THEN NaN
    ELSE IF IsInf(a) /\ IsInf(b) THEN NaN
    ELSE IF IsInf(a) THEN (IF Sign(a) * Sign(b) >= 0 THEN PosInf ELSE NegInf)
    ELSE IF IsInf(b) THEN 0
    ELSE IF b = 0 THEN (IF a = 0 THEN NaN ELSE IF a > 0 THEN PosInf ELSE NegInf)
    ELSE TruncDiv(a * ONE, b)

FLt(a, b) == ~IsNaN(a) /\ ~IsNaN(b) /\ a < b

FGt(a, b) == FLt(b, a)

FAbs(a) == IF IsNaN(a) THEN NaN ELSE Abs(a)

RECURSIVE ISqrtBS(_, _, _)
\* the largest s in lo..hi with s * s <= v
ISqrtBS(lo, hi, v) ==
    IF lo >= hi THEN lo
    ELSE LET mid == (lo + hi + 1) \div 2
         IN  IF mid * mid <= v THEN ISqrtBS(mid, hi, v) ELSE ISqrtBS(lo, mid - 1, v)

\* np.sqrt
FSqrt(a) ==
    IF IsNaN(a) THEN NaN
    ELSE IF a = PosInf THEN PosInf
    ELSE IF a < 0 THEN NaN
    ELSE ISqrtBS(0, 46340, a * ONE)

\* an integer count or parameter as a float
ToFloat(n) == n * ONE

-----------------------------------------------------------------------------
(* pandas Series operations; a Series is a sequence, row i of the frame    *)
(*  at index i                                                             *)

\* a Series held as its values (not as the rule computing them)
Series(f) == <<>> \o f

Min2(a, b) == IF a <= b THEN a ELSE b

Max2(a, b) == IF a >= b THEN a ELSE b

\* scalar clip; pandas orders the two scalar thresholds, NaN stays NaN
clip1(x, lower, upper) ==
    IF IsNaN(x) THEN NaN
    ELSE Min2(Max2(x, Min2(lower, upper)), Max2(lower, upper))

clip(s, lower, upper) == Series([i \in 1..Len(s) |-> clip1(s[i], lower, upper)])

fillna(s, v) == Series([i \in 1..Len(s) |-> IF IsNaN(s[i]) THEN v ELSE s[i]])

shift(s) == Series([i \in 1..Len(s) |-> IF i = 1 THEN NaN ELSE s[i - 1]])

pct_change(s) ==
    Series([i \in 1..Len(s) |-> IF i = 1 THEN NaN ELSE FSub(FDiv(s[i], s[i - 1]), ONE)])

Sum(s) ==
    LET acc[i \in 0..Len(s)] == IF i = 0 THEN 0 ELSE FAdd(acc[i - 1], s[i])
    IN  acc[Len(s)]

\* Series.rolling(window).mean(): NaN until the window is complete
rolling_mean(s, window) ==
    Series([i \in 1..Len(s) |->
        IF i < window THEN NaN
        ELSE FDiv(Sum(SubSeq(s, i - window + 1, i)), ToFloat(window))])

\* Series.ewm(alpha=alpha, adjust=False).mean()
ewm_mean(s, alpha) ==
    LET y[i \in 1..Len(s)] ==
            IF i = 1 THEN s[1]
            ELSE FAdd(FMul(FSub(ONE, alpha), y[i - 1]), FMul(alpha, s[i]))
    IN  Series([i \in 1..Len(s) |-> y[i]])

\* Series.replace(0, np.nan)
replace0(s) == Series([i \in 1..Len(s) |-> IF s[i] = 0 THEN NaN ELSE s[i]])

\* cumprod / cummax skip NaN: the row stays NaN, the running value carries on
cumprod(s) ==
    LET cp[i \in 0..Len(s)] ==
            IF i = 0 THEN ONE
            ELSE IF IsNaN(s[i]) THEN cp[i - 1] ELSE FMul(cp[i - 1], s[i])
    IN  Series([i \in 1..Len(s) |-> IF IsNaN(s[i]) THEN NaN ELSE cp[i]])

cummax(s) ==
    LET cm[i \in 0..Len(s)] ==
            IF i = 0 THEN NaN
            ELSE IF IsNaN(s[i]) THEN cm[i - 1]
            ELSE IF IsNaN(cm[i - 1]) THEN s[i]
            ELSE Max2(cm[i - 1], s[i])
    IN  Series([i \in 1..Len(s) |-> IF IsNaN(s[i]) THEN NaN ELSE cm[i]])

\* the index labels a dropna() keeps
notna(s) == {i \in 1..Len(s) : ~IsNaN(s[i])}

\* the rows of s at the labels idx, in order (.loc[idx])
take(s, idx) ==
    LET t[i \in 0..Len(s)] ==
            IF i = 0 THEN <<>>
            ELSE IF i \in idx THEN Append(t[i - 1], s[i]) ELSE t[i - 1]
    IN  t[Len(s)]

NotNaN(x) == ~IsNaN(x)

dropna(s) == SelectSeq(s, NotNaN)

SeqAdd(a, b) == Series([i \in 1..Len(a) |-> FAdd(a[i], b[i])])

SeqSub(a, b) == Series([i \in 1..Len(a) |-> FSub(a[i], b[i])])

SeqMul(a, b) == Series([i \in 1..Len(a) |-> FMul(a[i], b[i])])

SeqDiv(a, b) == Series([i \in 1..Len(a) |-> FDiv(a[i], b[i])])

SeqScale(c, s) == Series([i \in 1..Len(s) |-> FMul(c, s[i])])

SeqRsub(c, s) == Series([i \in 1..Len(s) |-> FSub(c, s[i])])

SeqRadd(c, s) == Series([i \in 1..Len(s) |-> FAdd(c, s[i])])

\* Series.prod() / mean() / std() / min(): pandas skips NaN rows (skipna)
prod(s) ==
    LET v == dropna(s)
        acc[i \in 0..Len(v)] == IF i = 0 THEN ONE ELSE FMul(acc[i - 1], v[i])
    IN  acc[Len(v)]

mean(s) ==
    LET v == dropna(s)
    IN  IF Len(v) = 0 THEN NaN ELSE FDiv(Sum(v), ToFloat(Len(v)))

\* sample standard deviation (ddof = 1): NaN for fewer than two rows
std(s) ==
    LET v == dropna(s)
    IN  IF Len(v) < 2 THEN NaN
        ELSE LET m == mean(v)
                 d == Series([i \in 1..Len(v) |-> FSub(v[i], m)])
             IN  FSqrt(FDiv(Sum(SeqMul(d, d)), ToFloat(Len(v) - 1)))

min(s) ==
    LET v == dropna(s)
        acc[i \in 0..Len(v)] ==
            IF i = 0 THEN NaN
            ELSE IF i = 1 THEN v[1] ELSE Min2(acc[i - 1], v[i])
    IN  acc[Len(v)]

-----------------------------------------------------------------------------
(* kpis() and drawdown() *)

TradingDays == 252

\* base ** (TradingDays / n) - 1.0, kept unevaluated.  numpy's power of a
\* negative base is NaN unless the exponent is a whole number.
AnnRet(base, n) ==
    [nan  |-> IsNaN(base) \/ (base < 0 /\ TradingDays % n # 0),
     base |-> base,
     n    |-> n]

NaNRatio == [nan |-> TRUE, num |-> AnnRet(NaN, 1), den |-> NaN]

\* line 44 divides two Python scalars: 252.0 / len(r) raises on an empty r
kpis_raises(returns) == Len(dropna(returns)) = 0

kpis(returns, rf, has_rf) ==
    LET idx     == notna(returns)
        r       == take(returns, idx)
        ex      == IF has_rf THEN dropna(SeqSub(r, take(rf, idx))) ELSE r
        ann_ret == AnnRet(prod(SeqRadd(ONE, r)), Len(r))
        ann_vol == FMul(std(r), FSqrt(ToFloat(TradingDays)))
        sharpe  == IF FGt(std(r), 0)
                   THEN FMul(FDiv(mean(ex), std(r)), FSqrt(ToFloat(TradingDays)))
                   ELSE NaN
        eq      == cumprod(SeqRadd(ONE, r))
        dd      == SeqRadd(-ONE, SeqDiv(eq, cummax(eq)))
        maxdd   == min(dd)
        calmar  == IF FLt(maxdd, 0)
                   THEN [nan |-> ann_ret.nan, num |-> ann_ret, den |-> FAbs(maxdd)]
                   ELSE NaNRatio
    IN  [CAGR |-> ann_ret, AnnVol |-> ann_vol, Sharpe |-> sharpe,
         MaxDD |-> maxdd, Calmar |-> calmar]

drawdown(eq) == SeqRadd(-ONE, SeqDiv(eq, cummax(eq)))

-----------------------------------------------------------------------------
(* main(): the column each line computes *)

PercentPerUnit == 100

BpsPerUnit == 10000

VolMatchCap == 3

\* line 84
Ret(aapl_close) == pct_change(aapl_close)

\* line 85
RfDaily(us2y_yield) ==
    Series([i \in 1..Len(us2y_yield) |->
        FDiv(FDiv(us2y_yield[i], ToFloat(PercentPerUnit)), ToFloat(TradingDays))])

\* line 99
Sma20(aapl_close, c) == rolling_mean(aapl_close, c.sma_window)

\* line 100 with the missing sma20 carried into trend_ok instead of compared
TrendOk_Missing(aapl_close, sma20, c) ==
    Series([i \in 1..Len(aapl_close) |->
        IF IsNaN(sma20[i]) THEN NaN
        ELSE IF FGt(aapl_close[i], FMul(FAdd(ONE, c.sma_band), sma20[i])) THEN ONE ELSE 0])

\* line 100: a comparison with NaN is False, and astype(float) makes it 0.0
TrendOk(aapl_close, sma20, c) ==
    Series([i \in 1..Len(aapl_close) |->
        IF FGt(aapl_close[i], FMul(FAdd(ONE, c.sma_band), sma20[i])) THEN ONE ELSE 0])

\* line 103 divides two Python scalars: it raises when lookback_vol + 1.0 = 0
AlphaRaises(c) == c.lookback_vol + 1 = 0

Alpha(c) == FDiv(ToFloat(2), ToFloat(c.lookback_vol + 1))

\* line 104: ewm() rejects an alpha outside (0, 1] with a ValueError
EwmRaises(alpha) == ~(FGt(alpha, 0) /\ ~FGt(alpha, ONE))

EwmaVar(ret, alpha) == ewm_mean(SeqMul(ret, ret), alpha)

\* line 105 without the replace(0, np.nan)
VolHatAnn_KeepZero(ewma_var) ==
    Series([i \in 1..Len(ewma_var) |-> FSqrt(FMul(ToFloat(TradingDays), ewma_var[i]))])

\* line 105
VolHatAnn(ewma_var) ==
    replace0(Series([i \in 1..Len(ewma_var) |-> FSqrt(FMul(ToFloat(TradingDays), ewma_var[i]))]))

\* line 107 without the clip
WRaw_NoClip(vol_hat_ann, c) ==
    fillna(Series([i \in 1..Len(vol_hat_ann) |-> FDiv(c.target_vol, vol_hat_ann[i])]), 0)

\* line 107
WRaw(vol_hat_ann, c) ==
    fillna(clip(Series([i \in 1..Len(vol_hat_ann) |-> FDiv(c.target_vol, vol_hat_ann[i])]),
                0, c.lev_cap),
           0)

\* line 108 without the clip
GVix_NoClip(vix, c) ==
    Series([i \in 1..Len(vix) |-> FSub(ONE, FDiv(FSub(vix[i], c.vix_cut), c.vix_width))])

\* line 108
GVix(vix, c) ==
    clip(Series([i \in 1..Len(vix) |-> FSub(ONE, FDiv(FSub(vix[i], c.vix_cut), c.vix_width))]),
         0, ONE)

\* line 109 without the trend filter
W_NoTrend(w_raw, trend_ok, g_vix, c) == clip(SeqMul(w_raw, g_vix), 0, c.lev_cap)

\* line 109
W(w_raw, trend_ok, g_vix, c) == clip(SeqMul(SeqMul(w_raw, trend_ok), g_vix), 0, c.lev_cap)

\* line 111 without the shift: the position is today's weight
WPrev_NoShift(w) == fillna(w, 0)

\* line 111
WPrev(w) == fillna(shift(w), 0)

\* line 112
Gross(w_prev, ret, rf_daily) ==
    SeqAdd(SeqMul(w_prev, ret), SeqMul(SeqRsub(ONE, w_prev), rf_daily))

\* line 113 without the abs()
Turnover_Signed(w, w_prev) == Series([i \in 1..Len(w) |-> FSub(w[i], w_prev[i])])

\* line 113
Turnover(w, w_prev) == Series([i \in 1..Len(w) |-> FAbs(FSub(w[i], w_prev[i]))])

\* line 114
Cost(turnover, c) == SeqScale(FDiv(c.cost_bps, ToFloat(BpsPerUnit)), turnover)

\* line 116
StratRet(gross, cost) == SeqSub(gross, cost)

\* lines 119, 120, 128
Equity(r) == cumprod(SeqRadd(ONE, r))

\* lines 123, 124
AnnStd(r) == FMul(std(r), FSqrt(ToFloat(TradingDays)))

\* line 125
WBh(strat_vol, bh_vol) ==
    LET ratio == IF FGt(bh_vol, 0) THEN FDiv(strat_vol, bh_vol) ELSE ONE
    IN  IF IsNaN(ratio) THEN NaN
        ELSE Min2(Max2(ratio, 0), ToFloat(VolMatchCap))

\* line 127
BhVmRet(w_bh, ret, rf_daily) ==
    SeqAdd(SeqScale(w_bh, ret), SeqScale(FSub(ONE, w_bh), rf_daily))

-----------------------------------------------------------------------------
(* inputs *)

\* rows of the aligned frame (the frame of line 82)
MaxRows == 3

\* rows of a return series handed to kpis() on its own
MaxLen == 4

PriceLevels == {8000, 10000}

\* vix_cut - vix_width, the middle of the ramp, beyond vix_cut + vix_width
VixLevels == {25000, 40000, 50000}

\* short-rate level in percent: 0 % and 252 % (rf_daily 0.0 and 0.01)
YieldLevels == {0, 252000}

\* the parameter block of lines 89-96 (lookback_vol 20, target_vol 0.40, lev_cap 1.3,
\* sma_window 20, sma_band -0.02, vix_cut 35.0, vix_width 10.0, cost_bps 1.0), with
\* the windows shortened to fit MaxRows and the levels rescaled to the price moves
\* of PriceLevels
Params(lb, tv, cap, win, bps) ==
    [lookback_vol |-> lb, target_vol |-> tv, lev_cap |-> cap, sma_window |-> win,
     sma_band |-> -20, vix_cut |-> 35000, vix_width |-> 10000, cost_bps |-> bps]

Configs ==
    { Params(3, 4000, 1300, 2, 100000),
      Params(3, 4000, 1000, 1, 0),
      Params(1, 8000, 2000, 1, 100000),
      Params(3, 4000, 0, 2, 100000) }

\* parameter blocks section 7 of the specification calls configuration errors
BadConfigs ==
    { [Params(3, 4000, 1300, 1, 100000) EXCEPT !.vix_width = 0],
      Params(0, 4000, 1300, 1, 100000),
      Params(-1, 4000, 1300, 1, 100000),
      Params(3, 4000, -1000, 1, 100000) }

\* a high-target, high-cap block and a price path with a 60 % fall
CrashConfigs == { Params(1, 30000, 3000, 1, 0), Params(3, 30000, 3000, 1, 100000) }

CrashPriceLevels == {8000, 20000}

\* return levels of a series handed to kpis() directly: -200 %, -50 %, 0, +100 %, missing
ReturnLevels == {-2000, -500, 0, 1000, NaN}

RfLevels == {0, 10}

ConfigError(c) == c.vix_width = 0 \/ c.lookback_vol <= 0 \/ c.lev_cap < 0

\* vix levels for the runs with any parameter block: vix_cut itself and one above
VixLevelsAny == {35000, 40000}

Columns ==
    {"aapl_close", "vix", "us2y_yield", "ret", "rf_daily", "sma20", "trend_ok",
     "ewma_var", "vol_hat_ann", "w_raw", "g_vix", "w", "strat_ret", "bh_ret",
     "eq_strat", "eq_bh", "bh_vm_ret", "eq_bh_vm"}

Locals ==
    {"alpha", "w_prev", "gross", "turnover", "cost", "bh_vol", "strat_vol", "w_bh",
     "kpi_strat", "kpi_bh", "kpi_vm", "dd_strat", "dd_bh", "dd_bh_vm"}

NoFrame == [c \in Columns |-> <<>>]

NoLocals == [l \in Locals |-> <<>>] @@ [error |-> "none"]

NoArg == [returns |-> <<>>, rf |-> <<>>, has_rf |-> FALSE]

\* the frame after the alignment of lines 80-82: no missing value in any column
Frame(configs, pricelevels, vixlevels) ==
    /\ cfg \in configs
    /\ \E n \in 1..MaxRows :
         \E close \in [1..n -> pricelevels], v \in [1..n -> vixlevels],
            y \in [1..n -> YieldLevels] :
              \* the first row only gives the first return its base price: line 86
              \* drops it, so its vix and yield are held at one level
              /\ v[1] = 40000 /\ y[1] = 0
              /\ df = [NoFrame EXCEPT !.aapl_close = close, !.vix = v, !.us2y_yield = y]
    /\ out = NoLocals
    /\ arg = NoArg
    /\ res = <<>>
    /\ pc = "returns"

Init == Frame(Configs, PriceLevels, VixLevels)

InitCfg == Frame(Configs \cup BadConfigs, PriceLevels, VixLevelsAny)

InitVm == Frame(CrashConfigs, CrashPriceLevels, VixLevels)

-----------------------------------------------------------------------------
(* main(), block by block *)

\* lines 84-86: the second dropna() drops every row with a missing value
Returns ==
    /\ pc = "returns"
    /\ LET ret      == Ret(df.aapl_close)
           rf_daily == RfDaily(df.us2y_yield)
           keep     == notna(df.aapl_close) \cap notna(df.vix) \cap notna(df.us2y_yield)
                          \cap notna(ret) \cap notna(rf_daily)
       IN  df' = [df EXCEPT !.aapl_close = take(@, keep), !.vix = take(@, keep),
                            !.us2y_yield = take(@, keep), !.ret = take(ret, keep),
                            !.rf_daily = take(rf_daily, keep)]
    /\ pc' = "trend"
    /\ UNCHANGED <<cfg, out, arg, res>>

\* lines 98-100
TrendFilter ==
    /\ pc = "trend"
    /\ LET sma20 == Sma20(df.aapl_close, cfg)
       IN  df' = [df EXCEPT !.sma20 = sma20,
                            !.trend_ok = TrendOk(df.aapl_close, sma20, cfg)]
    /\ pc' = "ewma"
    /\ UNCHANGED <<cfg, out, arg, res>>

\* lines 102-105
EwmaVol ==
    /\ pc = "ewma"
    /\ IF AlphaRaises(cfg)
       THEN /\ out' = [out EXCEPT !.error = "ZeroDivisionError"]
            /\ pc' = "error"
            /\ UNCHANGED df
       ELSE IF EwmRaises(Alpha(cfg))
       THEN /\ out' = [out EXCEPT !.error = "ValueError", !.alpha = Alpha(cfg)]
            /\ pc' = "error"
            /\ UNCHANGED df
       ELSE LET ewma_var == EwmaVar(df.ret, Alpha(cfg))
            IN  /\ df' = [df EXCEPT !.ewma_var = ewma_var,
                                    !.vol_hat_ann = VolHatAnn(ewma_var)]
                /\ out' = [out EXCEPT !.alpha = Alpha(cfg)]
                /\ pc' = "weights"
    /\ UNCHANGED <<cfg, arg, res>>

\* lines 107-109
Weights ==
    /\ pc = "weights"
    /\ LET w_raw == WRaw(df.vol_hat_ann, cfg)
           g_vix == GVix(df.vix, cfg)
       IN  df' = [df EXCEPT !.w_raw = w_raw, !.g_vix = g_vix,
                            !.w = W(w_raw, df.trend_ok, g_vix, cfg)]
    /\ pc' = "simulate"
    /\ UNCHANGED <<cfg, out, arg, res>>

\* lines 111-120
Simulate ==
    /\ pc = "simulate"
    /\ LET w_prev    == WPrev(df.w)
           gross     == Gross(w_prev, df.ret, df.rf_daily)
           turnover  == Turnover(df.w, w_prev)
           cost      == Cost(turnover, cfg)
           strat_ret == StratRet(gross, cost)
       IN  /\ out' = [out EXCEPT !.w_prev = w_prev, !.gross = gross,
                                 !.turnover = turnover, !.cost = cost]
           /\ df' = [df EXCEPT !.strat_ret = strat_ret, !.bh_ret = df.ret,
                               !.eq_strat = Equity(strat_ret),
                               !.eq_bh = Equity(df.ret)]
    /\ pc' = "volmatch"
    /\ UNCHANGED <<cfg, arg, res>>

\* lines 122-128
VolMatched ==
    /\ pc = "volmatch"
    /\ LET bh_vol    == AnnStd(df.bh_ret)
           strat_vol == AnnStd(df.strat_ret)
           w_bh      == WBh(strat_vol, bh_vol)
           bh_vm_ret == BhVmRet(w_bh, df.ret, df.rf_daily)
       IN  /\ out' = [out EXCEPT !.bh_vol = bh_vol, !.strat_vol = strat_vol,
                                 !.w_bh = w_bh]
           /\ df' = [df EXCEPT !.bh_vm_ret = bh_vm_ret, !.eq_bh_vm = Equity(bh_vm_ret)]
    /\ pc' = "report"
    /\ UNCHANGED <<cfg, arg, res>>

\* lines 130-132: the first kpis() call that raises ends the run
Report ==
    /\ pc = "report"
    /\ IF \E c \in {"strat_ret", "bh_ret", "bh_vm_ret"} : kpis_raises(df[c])
       THEN /\ out' = [out EXCEPT !.error = "ZeroDivisionError"]
            /\ pc' = "error"
       ELSE /\ out' = [out EXCEPT !.kpi_strat = kpis(df.strat_ret, df.rf_daily, TRUE),
                                  !.kpi_bh = kpis(df.bh_ret, df.rf_daily, TRUE),
                                  !.kpi_vm = kpis(df.bh_vm_ret, df.rf_daily, TRUE)]
            /\ pc' = "charts"
    /\ UNCHANGED <<cfg, df, arg, res>>

\* lines 134-172: the drawdown() calls of the charts
Charts ==
    /\ pc = "charts"
    /\ out' = [out EXCEPT !.dd_strat = drawdown(df.eq_strat),
                          !.dd_bh = drawdown(df.eq_bh),
                          !.dd_bh_vm = drawdown(df.eq_bh_vm)]
    /\ pc' = "done"
    /\ UNCHANGED <<cfg, df, arg, res>>

Next ==
    \/ Returns
    \/ TrendFilter
    \/ EwmaVol
    \/ Weights
    \/ Simulate
    \/ VolMatched
    \/ Report
    \/ Charts

Spec == Init /\ [][Next]_vars

\* the same program on price paths with a crash
SpecVm == InitVm /\ [][Next]_vars

\* the same program with the parameter block left open, invalid blocks included
SpecCfg == InitCfg /\ [][Next]_vars

-----------------------------------------------------------------------------
(* kpis() and drawdown() called on their own, on any return series *)

InitKpis ==
    /\ \E n \in 0..MaxLen :
         \E r \in [1..n -> ReturnLevels], level \in RfLevels, has_rf \in BOOLEAN :
            arg = [returns |-> r,
                   rf      |-> IF has_rf THEN [i \in 1..n |-> level] ELSE <<>>,
                   has_rf  |-> has_rf]
    /\ res = [raised |-> FALSE, kpis |-> <<>>, dd |-> <<>>]
    /\ cfg = Params(3, 4000, 1300, 2, 100000)
    /\ df = NoFrame
    /\ out = NoLocals
    /\ pc = "kpis_call"

\* lines 36-59
CallKpis ==
    /\ pc = "kpis_call"
    /\ IF kpis_raises(arg.returns)
       THEN res' = [res EXCEPT !.raised = TRUE]
       ELSE res' = [res EXCEPT !.kpis = kpis(arg.returns, arg.rf, arg.has_rf)]
    /\ pc' = "drawdown_call"
    /\ UNCHANGED <<cfg, df, out, arg>>

\* lines 61-62, on the equity curve of the series (as lines 119, 146 build it)
CallDrawdown ==
    /\ pc = "drawdown_call"
    /\ res' = [res EXCEPT !.dd = drawdown(Equity(arg.returns))]
    /\ pc' = "returned"
    /\ UNCHANGED <<cfg, df, out, arg>>

NextKpis ==
    \/ CallKpis
    \/ CallDrawdown

SpecKpis == InitKpis /\ [][NextKpis]_vars

-----------------------------------------------------------------------------
(* properties *)

Rows(col) == 1..Len(df[col])

\* the blocks of main() after which the weight columns exist
Weighted == pc \in {"simulate", "volmatch", "report", "charts", "done"}

\* the blocks of main() after which strat_ret exists
Simulated == pc \in {"volmatch", "report", "charts", "done"}

\* C1: at every row the composite weight is a number in [0, lev_cap], and it is 0
\* wherever the trend filter is 0 or the vix gate is 0.
C1_WeightInRange ==
    Weighted =>
        \A i \in Rows("w") :
            /\ ~IsNaN(df.w[i])
            /\ 0 <= df.w[i] /\ df.w[i] <= cfg.lev_cap
            /\ (df.trend_ok[i] = 0 \/ df.g_vix[i] = 0) => df.w[i] = 0

\* a frame with one row at the cap, one row shut by the trend filter alone and
\* (possibly the same row) one shut by the gate alone
C1_Witness ==
    /\ Weighted
    /\ \E i \in Rows("w") : df.w[i] = cfg.lev_cap /\ cfg.lev_cap > 0
    /\ \E i \in Rows("w") : df.trend_ok[i] = 0 /\ df.w_raw[i] > 0 /\ df.g_vix[i] > 0
                              /\ df.w[i] = 0

\* vol-index levels the gate is evaluated at besides the rows of the frame
GateGrid == {20000, 25000, 30000, 35000, 36000, 40000, 44000, 45000, 46000, 60000}

GateAt(V) == GVix(<<V>>, cfg)[1]

\* C7: with vix_width > 0 the gate is in [0, 1], is 1 up to vix_cut (so at
\* vix_cut - vix_width), is 0 from vix_cut + vix_width on, and never rises with V.
C7_GateShape ==
    (Weighted /\ cfg.vix_width > 0) =>
        /\ \A i \in Rows("g_vix") :
              /\ 0 <= df.g_vix[i] /\ df.g_vix[i] <= ONE
              /\ df.vix[i] <= cfg.vix_cut => df.g_vix[i] = ONE
              /\ df.vix[i] >= cfg.vix_cut + cfg.vix_width => df.g_vix[i] = 0
              /\ \A j \in Rows("g_vix") :
                    df.vix[i] <= df.vix[j] => df.g_vix[i] >= df.g_vix[j]
              /\ \A V \in GateGrid :
                    /\ V <= df.vix[i] => GateAt(V) >= df.g_vix[i]
                    /\ V >= df.vix[i] => GateAt(V) <= df.g_vix[i]
        /\ \A V \in GateGrid :
              /\ 0 <= GateAt(V) /\ GateAt(V) <= ONE
              /\ V <= cfg.vix_cut => GateAt(V) = ONE
              /\ V >= cfg.vix_cut + cfg.vix_width => GateAt(V) = 0
        /\ GateAt(cfg.vix_cut - cfg.vix_width) = ONE

\* a frame with a row at vix_cut - vix_width (gate open) and a row inside the ramp
C7_Witness ==
    /\ Weighted
    /\ \E i, j \in Rows("g_vix") :
          /\ df.vix[i] = cfg.vix_cut - cfg.vix_width /\ df.g_vix[i] = ONE
          /\ 0 < df.g_vix[j] /\ df.g_vix[j] < ONE

\* C10: the product w_raw * trend_ok * g_vix is already in [0, lev_cap], so the
\* second clip changes nothing: w is that product at every row.
C10_SecondClipIdentity ==
    Weighted =>
        \A i \in Rows("w") :
            LET p == FMul(FMul(df.w_raw[i], df.trend_ok[i]), df.g_vix[i])
            IN  0 <= p /\ p <= cfg.lev_cap /\ df.w[i] = p

\* the weight one combined clip of (target_vol / vol_hat_ann) * trend_ok * g_vix gives
SingleClip(i) ==
    LET ratio == FDiv(cfg.target_vol, df.vol_hat_ann[i])
    IN  clip1(FMul(FMul(ratio, df.trend_ok[i]), df.g_vix[i]), 0, cfg.lev_cap)

\* a row where the first clip binds and the combined clip gives another weight
C10_Witness ==
    /\ Weighted
    /\ \E i \in Rows("w") :
          /\ df.w_raw[i] = cfg.lev_cap
          /\ ~IsNaN(SingleClip(i))
          /\ SingleClip(i) # df.w[i]

AllFlat == \A i \in Rows("ret") : df.ret[i] = 0

\* C5: on a frame whose returns are all 0, vol_hat_ann is missing at every row,
\* w_raw, w and turnover are 0 and strat_ret is rf_daily, row by row.
C5_ConstantPrice ==
    AllFlat =>
        /\ \A i \in Rows("vol_hat_ann") : IsNaN(df.vol_hat_ann[i])
        /\ \A i \in Rows("w") : df.w_raw[i] = 0 /\ df.w[i] = 0
        /\ \A i \in Rows("strat_ret") :
              /\ out.turnover[i] = 0 /\ out.cost[i] = 0
              /\ df.strat_ret[i] = df.rf_daily[i]

\* a finished run on a flat price path with a changing, nonzero rate and a
\* changing vol index
C5_Witness ==
    /\ pc = "done" /\ AllFlat /\ Len(df.ret) >= 2
    /\ \E i, j \in Rows("strat_ret") :
          /\ df.rf_daily[i] # df.rf_daily[j]
          /\ df.vix[i] # df.vix[j]
          /\ df.strat_ret[i] > 0

\* the weight held through row i: the weight of the row before, 0 on the first row
Held(i) == IF i = 1 THEN 0 ELSE df.w[i - 1]

CostRate == FDiv(cfg.cost_bps, ToFloat(BpsPerUnit))

\* C9: strat_ret(t) = w(t-1) r(t) + (1 - w(t-1)) rf(t) - (cost_bps / 10000) |w(t) - w(t-1)|
\* with w(0) = 0, so the first gross return is rf; the net return never exceeds the
\* gross return and, between rows of equal gross return, falls as turnover grows.
C9_LaggedAccounting ==
    Simulated =>
        /\ \A i \in Rows("strat_ret") :
              /\ out.w_prev[i] = Held(i)
              /\ out.gross[i] = FMul(Held(i), df.ret[i]) + FMul(ONE - Held(i), df.rf_daily[i])
              /\ out.turnover[i] = Abs(df.w[i] - Held(i))
              /\ df.strat_ret[i] = out.gross[i] - FMul(CostRate, out.turnover[i])
              /\ df.strat_ret[i] <= out.gross[i]
              /\ \A j \in Rows("strat_ret") :
                    (out.gross[i] = out.gross[j] /\ out.turnover[i] <= out.turnover[j])
                        => df.strat_ret[i] >= df.strat_ret[j]
        /\ Len(df.strat_ret) >= 1 => out.gross[1] = df.rf_daily[1]

\* a run charging a cost on a rising weight and on a falling weight, while the held
\* weight earns a nonzero return
C9_Witness ==
    /\ Simulated
    /\ \E i, j \in Rows("strat_ret") :
          /\ df.w[i] > Held(i) /\ out.cost[i] > 0
          /\ df.w[j] < Held(j) /\ out.cost[j] > 0
          /\ df.ret[j] # 0 /\ df.strat_ret[j] < out.gross[j]

\* rows whose trailing sma_window is still incomplete
Warmup == {i \in Rows("sma20") : IsNaN(df.sma20[i])}

OtherW(t, V) == W(df.w_raw, df.trend_ok, GVix([df.vix EXCEPT ![t] = V], cfg), cfg)

OtherGross(t, V) == Gross(WPrev(OtherW(t, V)), df.ret, df.rf_daily)

OtherCost(t, V) == Cost(Turnover(OtherW(t, V), WPrev(OtherW(t, V))), cfg)

OtherStratRet(t, V) == StratRet(OtherGross(t, V), OtherCost(t, V))

\* C2 as stated: two runs that agree on w(t-1), r(t), rf(t) and differ in w(t) have
\* the same strat_ret(t).
C2_NetIgnoresTodaysWeight ==
    pc = "done" =>
        \A t \in Rows("w") : \A V \in VixLevels :
            OtherStratRet(t, V)[t] = df.strat_ret[t]

\* C2 as the code has it: the two runs have the same gross(t), and strat_ret(t)
\* differs by the difference of the day's costs only; it is the same when w(t) is
\* the same or cost_bps is 0.  Rows before t are the same in every column.
C2_GrossIgnoresTodaysWeight ==
    pc = "done" =>
        \A t \in Rows("w") : \A V \in VixLevels :
            /\ OtherGross(t, V)[t] = out.gross[t]
            /\ OtherStratRet(t, V)[t] + OtherCost(t, V)[t] = df.strat_ret[t] + out.cost[t]
            /\ (OtherW(t, V)[t] = df.w[t] \/ cfg.cost_bps = 0)
                  => OtherStratRet(t, V)[t] = df.strat_ret[t]
            /\ \A u \in 1..(t - 1) : OtherStratRet(t, V)[u] = df.strat_ret[u]

\* two such runs: the weight of row t differs, the weight held through row t is
\* the same and not 0, and the return of row t is not 0
C2_Witness ==
    /\ pc = "done"
    /\ \E t \in Rows("w") : \E V \in VixLevels :
          /\ t > 1 /\ df.w[t - 1] > 0 /\ df.ret[t] # 0
          /\ OtherW(t, V)[t] # df.w[t]
          /\ OtherW(t, V)[t - 1] = df.w[t - 1]

\* C3: a parameter block with vix_width = 0, lookback_vol <= 0 or lev_cap < 0 is
\* rejected: such a run never completes, and it never holds a weight that is NaN
\* or infinite.
C3_ConfigRejected ==
    ConfigError(cfg) =>
        /\ pc \notin {"charts", "done"}
        /\ \A i \in Rows("w") : ~IsNaN(df.w[i]) /\ ~IsInf(df.w[i])

\* C4: kpis() never raises and returns the five fields for every series; Sharpe is
\* NaN exactly when std(r) > 0 fails and Calmar is NaN exactly when MaxDD < 0 fails.
C4_KpisNeverFails ==
    pc \in {"drawdown_call", "returned"} =>
        /\ ~res.raised
        /\ DOMAIN res.kpis = {"CAGR", "AnnVol", "Sharpe", "MaxDD", "Calmar"}
        /\ IsNaN(res.kpis.Sharpe) <=> ~FGt(std(dropna(arg.returns)), 0)
        /\ res.kpis.Calmar.nan <=> ~FLt(res.kpis.MaxDD, 0)

DrawdownSeries == {"dd_strat", "dd_bh", "dd_bh_vm"}

\* C6: every drawdown main() computes is <= 0 at every row, and so is every MaxDD,
\* also when leverage turns an equity curve negative.
C6_DrawdownNonPositive ==
    pc = "done" =>
        /\ \A c \in DrawdownSeries : \A i \in 1..Len(out[c]) : ~FGt(out[c][i], 0)
        /\ ~FGt(out.kpi_strat.MaxDD, 0)
        /\ ~FGt(out.kpi_bh.MaxDD, 0)
        /\ ~FGt(out.kpi_vm.MaxDD, 0)

====
